---- MODULE Spec2Model ----
(***************************************************************************)
(* Model of src/minesweeper.py: the Minesweeper board oracle, the Sentence *)
(* class and the MinesweeperAI knowledge engine (add_knowledge and its     *)
(* closure loop, the move queries).                                        *)
(*                                                                         *)
(* Sentence objects are mutable and shared by reference between            *)
(* self.knowledge and the shallow copy the closure loop iterates over, so  *)
(* the model keeps a heap of Sentence objects and lists of references.     *)
(***************************************************************************)
EXTENDS Integers, Sequences, FiniteSets, TLC

\* ---------------------------------------------------------------- bounds
Height == 3
Width == 3
MaxMines == 2
MaxMoves == 4
MaxCount == 4
MaxLiveMoves == 2
MaxSafeCells == 3
MaxApiMoves == 2
MaxApiCount == 1
MaxApiMarks == 2

\* ------------------------------------------------------------ state
VARIABLES
    board_mines,        \* Minesweeper.mines: the cells of the board that hold a mine
    moves_made,         \* MinesweeperAI.moves_made
    mines,              \* MinesweeperAI.mines
    safes,              \* MinesweeperAI.safes
    heap,               \* the Sentence objects, by reference: heap[r] = [cells, count]
    knowledge,          \* MinesweeperAI.knowledge: list of references into heap
    pc,                 \* position inside add_knowledge or make_random_move,
                        \* "idle" between calls
    cell,               \* add_knowledge: parameter cell
    count,              \* add_knowledge: local count (after line 212)
    neighbours,         \* add_knowledge: local neighbours
    possible_inference, \* add_knowledge: loop flag
    idx,                \* position of the for loop of line 223 in the copy
    blocks,             \* cells still to visit in the for loop of line 233 / 236
    move,               \* value returned by the last move query; inside
                        \* make_random_move its local (i, j)
    sent,               \* Sentence under test (Sentence-level operations)
    ret,                \* value returned by the last Sentence-level query
    op,                 \* last Sentence-level operation applied
    arg                 \* its argument

vars == <<board_mines, moves_made, mines, safes, heap, knowledge, pc, cell, count,
          neighbours, possible_inference, idx, blocks, move, sent, ret, op, arg>>

engineVars == <<board_mines, moves_made, mines, safes, heap, knowledge, pc, cell,
                count, neighbours, possible_inference, idx, blocks, move>>

sentVars == <<sent, ret, op, arg>>

Cells == (0 .. Height - 1) \X (0 .. Width - 1)

NoCell == <<-1, -1>>

\* ------------------------------------------------------------ Minesweeper

\* The in-bounds cells within one row and column of c, c excluded
\* (the double loop of nearby_mines and of add_knowledge).
Neighbours(c) ==
    {d \in Cells : d # c /\ d[1] \in c[1] - 1 .. c[1] + 1
                         /\ d[2] \in c[2] - 1 .. c[2] + 1}

is_mine(c) == c \in board_mines

nearby_mines(c) == Cardinality({d \in Neighbours(c) : is_mine(d)})

\* ------------------------------------------------------------ Sentence

Sentence(cells, cnt) == [cells |-> cells, count |-> cnt]

\* Variant: the test of line 108 written with >=.
known_mines_AtLeast(s) == IF s.count >= Cardinality(s.cells) THEN s.cells ELSE {}

known_mines(s) == IF s.count = Cardinality(s.cells) THEN s.cells ELSE {}

\* Variant: the test of line 117 made on the cell set instead of the count.
known_safes_EmptyTest(s) == IF Cardinality(s.cells) = 0 THEN s.cells ELSE {}

known_safes(s) == IF s.count = 0 THEN s.cells ELSE {}

\* Variant: line 129 left out, the count is not decremented.
SentMarkMine_NoDecrement(s, c) ==
    IF c \in s.cells
    THEN [cells |-> s.cells \ {c}, count |-> s.count]
    ELSE s

\* Variant: line 129 outside the if, the count is decremented in any case.
SentMarkMine_Always(s, c) == [cells |-> s.cells \ {c}, count |-> s.count - 1]

SentMarkMine(s, c) ==
    IF c \in s.cells
    THEN [cells |-> s.cells \ {c}, count |-> s.count - 1]
    ELSE s

\* Variant: mark_safe written as a copy of mark_mine, the count is decremented.
SentMarkSafe_Decrement(s, c) ==
    IF c \in s.cells
    THEN [cells |-> s.cells \ {c}, count |-> s.count - 1]
    ELSE s

SentMarkSafe(s, c) ==
    IF c \in s.cells
    THEN [cells |-> s.cells \ {c}, count |-> s.count]
    ELSE s

\* ------------------------------------------------------------ MinesweeperAI

\* The references held by a list.
Refs(list) == {list[k] : k \in 1 .. Len(list)}

\* The Sentence values of a list of references, in list order.
Values(h, list) == [k \in 1 .. Len(list) |-> h[list[k]]]

\* `s in self.knowledge`: membership by __eq__ (cells and count).
InKnowledge(h, list, s) == \E k \in 1 .. Len(list) : h[list[k]] = s

\* MinesweeperAI.mark_mine: the heap after sentence.mark_mine(c) on every
\* sentence of self.knowledge.
MarkMineAll(h, list, c) ==
    [r \in DOMAIN h |-> IF r \in Refs(list) THEN SentMarkMine(h[r], c) ELSE h[r]]

\* MinesweeperAI.mark_safe, likewise.
MarkSafeAll(h, list, c) ==
    [r \in DOMAIN h |-> IF r \in Refs(list) THEN SentMarkSafe(h[r], c) ELSE h[r]]

\* list.remove(x): drops the first entry equal by value to h[r]; the list
\* itself when none is (Python raises ValueError there, see ScanVisit).
RemoveFirstEqual(h, list, r) ==
    IF InKnowledge(h, list, h[r])
    THEN LET k == CHOOSE k \in 1 .. Len(list) :
                    /\ h[list[k]] = h[r]
                    /\ \A l \in 1 .. k - 1 : h[list[l]] # h[r]
         IN  SubSeq(list, 1, k - 1) \o SubSeq(list, k + 1, Len(list))
    ELSE list

\* Variant: only the test of line 245, the test of line 251 left out.
RECURSIVE InferLoop_OneWay(_, _, _, _)
InferLoop_OneWay(kn, i, j, acc) ==
    IF i > Len(kn) THEN acc
    ELSE IF j > Len(kn) THEN InferLoop_OneWay(kn, i + 1, i + 2, acc)
    ELSE LET sentence  == kn[i]
             following == kn[j]
             acc1 == IF /\ following.cells \subseteq sentence.cells
                        /\ following.cells # sentence.cells
                        /\ sentence.cells \ following.cells # {}
                     THEN Append(acc, Sentence(sentence.cells \ following.cells,
                                               sentence.count - following.count))
                     ELSE acc
         IN  InferLoop_OneWay(kn, i, j + 1, acc1)

\* Variant: lines 247 and 253 take the count of the larger sentence as it is.
RECURSIVE InferLoop_NoSubtract(_, _, _, _)
InferLoop_NoSubtract(kn, i, j, acc) ==
    IF i > Len(kn) THEN acc
    ELSE IF j > Len(kn) THEN InferLoop_NoSubtract(kn, i + 1, i + 2, acc)
    ELSE LET sentence  == kn[i]
             following == kn[j]
             acc1 == IF /\ following.cells \subseteq sentence.cells
                        /\ following.cells # sentence.cells
                        /\ sentence.cells \ following.cells # {}
                     THEN Append(acc, Sentence(sentence.cells \ following.cells,
                                               sentence.count))
                     ELSE acc
             acc2 == IF /\ sentence.cells \subseteq following.cells
                        /\ sentence.cells # following.cells
                        /\ following.cells \ sentence.cells # {}
                     THEN Append(acc1, Sentence(following.cells \ sentence.cells,
                                                following.count))
                     ELSE acc1
         IN  InferLoop_NoSubtract(kn, i, j + 1, acc2)

\* Lines 242-255: the sentences inferred from every pair (i, following),
\* in the order the two nested loops append them.
RECURSIVE InferLoop(_, _, _, _)
InferLoop(kn, i, j, acc) ==
    IF i > Len(kn) THEN acc
    ELSE IF j > Len(kn) THEN InferLoop(kn, i + 1, i + 2, acc)
    ELSE LET sentence  == kn[i]
             following == kn[j]
             acc1 == IF /\ following.cells \subseteq sentence.cells
                        /\ following.cells # sentence.cells
                        /\ sentence.cells \ following.cells # {}
                     THEN Append(acc, Sentence(sentence.cells \ following.cells,
                                               sentence.count - following.count))
                     ELSE acc
             acc2 == IF /\ sentence.cells \subseteq following.cells
                        /\ sentence.cells # following.cells
                        /\ following.cells \ sentence.cells # {}
                     THEN Append(acc1, Sentence(following.cells \ sentence.cells,
                                                following.count - sentence.count))
                     ELSE acc1
         IN  InferLoop(kn, i, j + 1, acc2)

infered_sentences(h, list) == InferLoop(Values(h, list), 1, 2, <<>>)

\* Variant: line 259 left out, an appended sentence does not raise the flag.
RECURSIVE AppendNew_NoFlag(_, _, _)
AppendNew_NoFlag(st, inf, k) ==
    IF k > Len(inf) THEN st
    ELSE IF InKnowledge(st.heap, st.knowledge, inf[k])
         THEN AppendNew_NoFlag(st, inf, k + 1)
         ELSE AppendNew_NoFlag([heap |-> Append(st.heap, inf[k]),
                                knowledge |-> Append(st.knowledge, Len(st.heap) + 1),
                                possible_inference |-> st.possible_inference],
                               inf, k + 1)

\* Variant: the test of line 258 left out, every inferred sentence is appended.
RECURSIVE AppendNew_NoCheck(_, _, _)
AppendNew_NoCheck(st, inf, k) ==
    IF k > Len(inf) THEN st
    ELSE AppendNew_NoCheck([heap |-> Append(st.heap, inf[k]),
                            knowledge |-> Append(st.knowledge, Len(st.heap) + 1),
                            possible_inference |-> TRUE],
                           inf, k + 1)

\* Lines 257-260: append every inferred sentence that is not in knowledge
\* (by value) at the moment its turn comes, raising the flag when one is.
\* st = [heap, knowledge, possible_inference]; inf[k] is the next sentence.
RECURSIVE AppendNew(_, _, _)
AppendNew(st, inf, k) ==
    IF k > Len(inf) THEN st
    ELSE IF InKnowledge(st.heap, st.knowledge, inf[k])
         THEN AppendNew(st, inf, k + 1)
         ELSE AppendNew([heap |-> Append(st.heap, inf[k]),
                         knowledge |-> Append(st.knowledge, Len(st.heap) + 1),
                         possible_inference |-> TRUE],
                        inf, k + 1)

\* Objects no list refers to any more are dropped and the references
\* renumbered in list order (garbage collection; no observable effect).
Compact(h, list) == Values(h, list)

CompactRefs(list) == [k \in 1 .. Len(list) |-> k]

\* ------------------------------------------------------------ initial state

Init ==
    /\ board_mines \in {b \in SUBSET Cells : Cardinality(b) <= MaxMines}
    /\ moves_made = {}
    /\ mines = {}
    /\ safes = {}
    /\ heap = <<>>
    /\ knowledge = <<>>
    /\ pc = "idle"
    /\ cell = NoCell
    /\ count = 0
    /\ neighbours = {}
    /\ possible_inference = FALSE
    /\ idx = 0
    /\ blocks = {}
    /\ move = NoCell
    /\ sent = Sentence({}, 0)
    /\ ret = {}
    /\ op = "none"
    /\ arg = NoCell

\* ------------------------------------------------------------ add_knowledge

\* Variant: the test of line 213 left out, known safe neighbours are kept.
UnknownNeighbours_KeepSafes(c, ms, ss) == {d \in Neighbours(c) : d \notin ms}

\* Lines 206-214: the in-bounds neighbours of c that are neither known mines
\* nor known safes, given the known sets ms and ss.
UnknownNeighbours(c, ms, ss) ==
    {d \in Neighbours(c) : d \notin ms /\ d \notin ss}

\* Variant: line 212 left out, the count is not adjusted.
AdjustedCount_NoAdjust(c, n, ms) == n

\* Lines 206-212: n, less one for every in-bounds neighbour of c in ms.
AdjustedCount(c, n, ms) == n - Cardinality(Neighbours(c) \cap ms)

\* Variant: the test of line 215 left out, an empty sentence is appended too.
AddSentence_AllowEmpty(st, s) ==
    IF ~InKnowledge(st.heap, st.knowledge, s)
    THEN [heap |-> Append(st.heap, s),
          knowledge |-> Append(st.knowledge, Len(st.heap) + 1)]
    ELSE st

\* Lines 215-218: the new sentence is appended unless its cell set is empty
\* or knowledge holds an equal sentence. st = [heap, knowledge].
AddSentence(st, s) ==
    IF s.cells # {} /\ ~InKnowledge(st.heap, st.knowledge, s)
    THEN [heap |-> Append(st.heap, s),
          knowledge |-> Append(st.knowledge, Len(st.heap) + 1)]
    ELSE st

\* Variant: line 222 sets the flag instead of clearing it.
FlagAtPassStart_True == TRUE

\* Line 222: the value the flag takes at the start of every pass.
FlagAtPassStart == FALSE

\* Variant: line 202 left out, the cell of the move is not marked safe.
AddKnowledgeCall_NoMarkSafe(c, n) ==
    /\ pc = "idle"
    /\ LET nb     == UnknownNeighbours(c, mines, safes)
           cnt    == AdjustedCount(c, n, mines)
           res    == AddSentence([heap |-> heap, knowledge |-> knowledge],
                                 Sentence(nb, cnt))
       IN  /\ moves_made' = moves_made \cup {c}
           /\ safes' = safes
           /\ neighbours' = nb
           /\ count' = cnt
           /\ heap' = res.heap
           /\ knowledge' = res.knowledge
    /\ cell' = c
    /\ possible_inference' = FlagAtPassStart
    /\ idx' = 1
    /\ blocks' = {}
    /\ pc' = "scan"
    /\ move' = NoCell
    /\ UNCHANGED <<board_mines, mines>>

\* Lines 201-222: the call add_knowledge(c, n) up to the first pass of the
\* closure loop.
AddKnowledgeCall(c, n) ==
    /\ pc = "idle"
    /\ LET h1     == MarkSafeAll(heap, knowledge, c)
           safes1 == safes \cup {c}
           nb     == UnknownNeighbours(c, mines, safes1)
           cnt    == AdjustedCount(c, n, mines)
           res    == AddSentence([heap |-> h1, knowledge |-> knowledge],
                                 Sentence(nb, cnt))
       IN  /\ moves_made' = moves_made \cup {c}
           /\ safes' = safes1
           /\ neighbours' = nb
           /\ count' = cnt
           /\ heap' = res.heap
           /\ knowledge' = res.knowledge
    /\ cell' = c
    /\ possible_inference' = FlagAtPassStart
    /\ idx' = 1
    /\ blocks' = {}
    /\ pc' = "scan"
    /\ move' = NoCell
    /\ UNCHANGED <<board_mines, mines>>

\* The game loop: an observation of a non-mine cell with its true count,
\* at most limit different cells being observed.
Observe(limit) ==
    \E c \in Cells :
        /\ ~is_mine(c)
        /\ c \in moves_made \/ Cardinality(moves_made) < limit
        /\ AddKnowledgeCall(c, nearby_mines(c))
        /\ UNCHANGED sentVars

AddKnowledge == Observe(MaxMoves)

\* The for loop of line 223 moves on to the next sentence of the copy.
NextSentence ==
    /\ pc' = "scan"
    /\ idx' = idx + 1
    /\ blocks' = {}

\* Line 236: sentence.known_safes().copy() is taken on the heap h; a for loop
\* over an empty set has no step of its own.
EnterSafes(h) ==
    LET ks == known_safes(h[idx])
    IN  IF ks = {} THEN NextSentence
        ELSE /\ pc' = "safes"
             /\ idx' = idx
             /\ blocks' = ks

\* Line 233: sentence.known_mines().copy() is taken on the heap h.
EnterMines(h) ==
    LET km == known_mines(h[idx])
    IN  IF km = {} THEN EnterSafes(h)
        ELSE /\ pc' = "mines"
             /\ idx' = idx
             /\ blocks' = km

\* Lines 223-233: one sentence of the copy is visited; it is dropped from
\* knowledge when empty (list.remove raises ValueError when no entry of
\* knowledge equals it), and its known mines are fetched.
ScanVisit ==
    /\ pc = "scan"
    /\ idx <= Len(heap)
    /\ LET sentence == idx
           h1 == IF cell \in heap[sentence].cells
                 THEN [heap EXCEPT ![sentence].cells = @ \ {cell}]
                 ELSE heap
           empty == h1[sentence].cells = {}
       IN  /\ heap' = h1
           /\ possible_inference' = (possible_inference \/ cell \in heap[sentence].cells)
           /\ knowledge' = IF empty THEN RemoveFirstEqual(h1, knowledge, sentence)
                           ELSE knowledge
           /\ IF empty /\ ~InKnowledge(h1, knowledge, h1[sentence])
              THEN /\ pc' = "raised"
                   /\ idx' = idx
                   /\ blocks' = {}
              ELSE EnterMines(h1)
    /\ UNCHANGED <<board_mines, moves_made, mines, safes, cell, count, neighbours, move>>
    /\ UNCHANGED sentVars

\* Lines 233-235: self.mark_mine(block) for one block of the known mines.
MarkMineBlock ==
    /\ pc = "mines"
    /\ \E block \in blocks :
        /\ mines' = mines \cup {block}
        /\ heap' = MarkMineAll(heap, knowledge, block)
        /\ IF blocks = {block}
           THEN EnterSafes(heap')
           ELSE /\ blocks' = blocks \ {block}
                /\ UNCHANGED <<pc, idx>>
    /\ possible_inference' = TRUE
    /\ UNCHANGED <<board_mines, moves_made, safes, knowledge, cell, count,
                   neighbours, move>>
    /\ UNCHANGED sentVars

\* Lines 236-238: self.mark_safe(block) for one block of the known safes.
MarkSafeBlock ==
    /\ pc = "safes"
    /\ \E block \in blocks :
        /\ safes' = safes \cup {block}
        /\ heap' = MarkSafeAll(heap, knowledge, block)
        /\ IF blocks = {block}
           THEN NextSentence
           ELSE /\ blocks' = blocks \ {block}
                /\ UNCHANGED <<pc, idx>>
    /\ possible_inference' = TRUE
    /\ UNCHANGED <<board_mines, moves_made, mines, knowledge, cell, count,
                   neighbours, move>>
    /\ UNCHANGED sentVars

\* Lines 242-260 and the loop test of line 221: the subset inference pass,
\* then either another pass over a fresh copy or the return.
Infer ==
    /\ pc = "scan"
    /\ idx > Len(heap)
    /\ LET inf == infered_sentences(heap, knowledge)
           res == AppendNew([heap |-> heap, knowledge |-> knowledge,
                             possible_inference |-> possible_inference], inf, 1)
       IN  /\ heap' = Compact(res.heap, res.knowledge)
           /\ knowledge' = CompactRefs(res.knowledge)
           /\ pc' = IF res.possible_inference THEN "scan" ELSE "idle"
           /\ idx' = IF res.possible_inference THEN 1 ELSE 0
           /\ possible_inference' = IF res.possible_inference THEN FlagAtPassStart
                                    ELSE FALSE
    /\ UNCHANGED <<board_mines, moves_made, mines, safes, cell, count, neighbours,
                   blocks, move>>
    /\ UNCHANGED sentVars

\* ------------------------------------------------------------ move queries

\* Variant: line 280 left out, any known safe cell is returned.
SafeMoveChoices_AnySafe == IF safes # {} THEN safes ELSE {NoCell}

\* Lines 278-282: what make_safe_move may return (set iteration order is
\* not fixed, so any known safe cell that is not a move made).
SafeMoveChoices ==
    IF safes \ moves_made # {} THEN safes \ moves_made ELSE {NoCell}

MakeSafeMove ==
    /\ pc = "idle"
    /\ move' \in SafeMoveChoices
    /\ UNCHANGED <<board_mines, moves_made, mines, safes, heap, knowledge, pc, cell,
                   count, neighbours, possible_inference, idx, blocks>>
    /\ UNCHANGED sentVars

\* Lines 293-295: (i, j) after the first draw c1 and, when c1 is a move made
\* or a known mine, the second draw c2.
RandomPick(c1, c2) ==
    IF c1 \in moves_made \/ c1 \in mines THEN c2 ELSE c1

\* Variant: the test of line 296 without its second half.
RandomAccepts_MovesOnly(c) == c \notin moves_made

\* Line 296: the test under which (i, j) is returned.
RandomAccepts(c) == c \notin moves_made /\ c \notin mines

\* Line 292: make_random_move is called and enters its loop.
MakeRandomMoveCall ==
    /\ pc = "idle"
    /\ pc' = "random"
    /\ move' = NoCell
    /\ UNCHANGED <<board_mines, moves_made, mines, safes, heap, knowledge, cell,
                   count, neighbours, possible_inference, idx, blocks>>
    /\ UNCHANGED sentVars

\* Lines 293-297: one turn of the while True loop; random.randint draws any
\* row of 0 .. height - 1 and any column of 0 .. width - 1.
RandomDraw ==
    /\ pc = "random"
    /\ \E c1, c2 \in Cells :
        /\ move' = RandomPick(c1, c2)
        /\ pc' = IF RandomAccepts(RandomPick(c1, c2)) THEN "idle" ELSE "random"
    /\ UNCHANGED <<board_mines, moves_made, mines, safes, heap, knowledge, cell,
                   count, neighbours, possible_inference, idx, blocks>>
    /\ UNCHANGED sentVars

\* ------------------------------------------------------------ specification

Next ==
    \/ AddKnowledge
    \/ ScanVisit
    \/ MarkMineBlock
    \/ MarkSafeBlock
    \/ Infer
    \/ MakeSafeMove

Spec == Init /\ [][Next]_vars

\* add_knowledge is sequential code: once called, the interpreter keeps
\* executing its statements.
ClosureStep == ScanVisit \/ MarkMineBlock \/ MarkSafeBlock \/ Infer

LiveAddKnowledge == Observe(MaxLiveMoves)

LiveNext == LiveAddKnowledge \/ ClosureStep

LiveSpec == Init /\ [][LiveNext]_vars /\ WF_vars(ClosureStep)

\* ------------------------------------------------------------ random moves

\* The boards of the end of a game: at most MaxSafeCells cells hold no mine.
RandInit ==
    /\ board_mines \in {b \in SUBSET Cells : Cardinality(Cells \ b) <= MaxSafeCells}
    /\ moves_made = {}
    /\ mines = {}
    /\ safes = {}
    /\ heap = <<>>
    /\ knowledge = <<>>
    /\ pc = "idle"
    /\ cell = NoCell
    /\ count = 0
    /\ neighbours = {}
    /\ possible_inference = FALSE
    /\ idx = 0
    /\ blocks = {}
    /\ move = NoCell
    /\ sent = Sentence({}, 0)
    /\ ret = {}
    /\ op = "none"
    /\ arg = NoCell

RandAddKnowledge == Observe(MaxSafeCells)

RandNext ==
    \/ RandAddKnowledge
    \/ ClosureStep
    \/ MakeRandomMoveCall
    \/ RandomDraw

\* Both add_knowledge and make_random_move are sequential code that keeps
\* running once called.
RandSpec ==
    RandInit /\ [][RandNext]_vars /\ WF_vars(ClosureStep) /\ WF_vars(RandomDraw)

\* ------------------------------------------------------------ Sentence alone

\* ------------------------------------------------- the public interface
\* The caller is any program: observations with arbitrary counts, the public
\* mark_mine and mark_safe, and both move queries. The AI never reads the
\* board, so one board stands for all.

ApiInit ==
    /\ Init
    /\ board_mines = {}

\* add_knowledge(c, n) of a new cell c with any count n, at most MaxApiMoves
\* times.
ApiAddKnowledge ==
    \E c \in Cells, n \in 0 .. MaxApiCount :
        /\ c \notin moves_made
        /\ Cardinality(moves_made) < MaxApiMoves
        /\ AddKnowledgeCall(c, n)
        /\ UNCHANGED sentVars

\* Lines 168-175: the caller's mark_mine(c), while at most MaxApiMarks cells
\* are known.
ApiMarkMine ==
    /\ pc = "idle"
    /\ \E c \in Cells :
        /\ Cardinality(mines \cup safes) < MaxApiMarks
        /\ mines' = mines \cup {c}
        /\ heap' = MarkMineAll(heap, knowledge, c)
    /\ UNCHANGED <<board_mines, moves_made, safes, knowledge, pc, cell, count,
                   neighbours, possible_inference, idx, blocks, move>>
    /\ UNCHANGED sentVars

\* Lines 177-184: the caller's mark_safe(c).
ApiMarkSafe ==
    /\ pc = "idle"
    /\ \E c \in Cells :
        /\ Cardinality(mines \cup safes) < MaxApiMarks
        /\ safes' = safes \cup {c}
        /\ heap' = MarkSafeAll(heap, knowledge, c)
    /\ UNCHANGED <<board_mines, moves_made, mines, knowledge, pc, cell, count,
                   neighbours, possible_inference, idx, blocks, move>>
    /\ UNCHANGED sentVars

ApiNext ==
    \/ ApiAddKnowledge
    \/ ScanVisit
    \/ MarkMineBlock
    \/ MarkSafeBlock
    \/ Infer
    \/ ApiMarkMine
    \/ ApiMarkSafe
    \/ MakeSafeMove
    \/ MakeRandomMoveCall
    \/ RandomDraw

ApiSpec == ApiInit /\ [][ApiNext]_vars

\* The cells the Sentence under test is built from: the first two rows.
SentCells == {c \in Cells : c[1] < 2}

\* A Sentence built by Sentence(cells, count) from any cells and count.
SentInit ==
    /\ board_mines = {}
    /\ moves_made = {}
    /\ mines = {}
    /\ safes = {}
    /\ heap = <<>>
    /\ knowledge = <<>>
    /\ pc = "idle"
    /\ cell = NoCell
    /\ count = 0
    /\ neighbours = {}
    /\ possible_inference = FALSE
    /\ idx = 0
    /\ blocks = {}
    /\ move = NoCell
    /\ sent \in {Sentence(cs, n) : cs \in SUBSET SentCells, n \in -1 .. MaxCount}
    /\ ret = {}
    /\ op = "none"
    /\ arg = NoCell

SentKnownMines ==
    /\ ret' = known_mines(sent)
    /\ op' = "known_mines"
    /\ arg' = NoCell
    /\ UNCHANGED sent
    /\ UNCHANGED engineVars

SentKnownSafes ==
    /\ ret' = known_safes(sent)
    /\ op' = "known_safes"
    /\ arg' = NoCell
    /\ UNCHANGED sent
    /\ UNCHANGED engineVars

SentMarkMineOp ==
    /\ \E c \in SentCells :
        /\ sent' = SentMarkMine(sent, c)
        /\ arg' = c
    /\ op' = "mark_mine"
    /\ UNCHANGED ret
    /\ UNCHANGED engineVars

SentMarkSafeOp ==
    /\ \E c \in SentCells :
        /\ sent' = SentMarkSafe(sent, c)
        /\ arg' = c
    /\ op' = "mark_safe"
    /\ UNCHANGED ret
    /\ UNCHANGED engineVars

SentNext ==
    \/ SentKnownMines
    \/ SentKnownSafes
    \/ SentMarkMineOp
    \/ SentMarkSafeOp

SentSpec == SentInit /\ [][SentNext]_vars

\* ------------------------------------------------------------ properties

\* The Sentence at position k of knowledge.
At(k) == heap[knowledge[k]]

\* C1. Soundness: with every observation taken from the board (a non-mine
\* cell and its true neighbour mine count), every cell of the known-mine set
\* is a mine of the board, no cell of the known-safe set is a mine, and the
\* cell make_safe_move returned is not a mine.
C1_Soundness ==
    /\ mines \subseteq board_mines
    /\ safes \cap board_mines = {}
    /\ move \notin board_mines

\* A mine has been deduced and make_safe_move has returned a deduced cell.
C1_Witness ==
    /\ pc = "idle"
    /\ mines # {}
    /\ move \in safes \ moves_made

\* C2. Disjointness: the known-safe set and the known-mine set have no cell
\* in common, in every state add_knowledge calls reach.
C2_Disjoint == safes \cap mines = {}

\* Both sets hold deduced cells.
C2_Witness ==
    /\ mines # {}
    /\ safes \ moves_made # {}
    /\ Cardinality(moves_made) >= 2

\* C3. Termination: every add_knowledge call returns: from any point inside
\* the call the closure loop reaches its exit (and raises nothing).
C3_Termination == (pc # "idle") ~> (pc = "idle")

\* A call has returned whose closure deduced both mines and safe cells, so
\* after more than one pass.
C3_Witness ==
    /\ pc = "idle"
    /\ cell \in moves_made
    /\ mines # {}
    /\ neighbours \cap safes # {}

\* C4. Fully stabilised on return: when add_knowledge has returned, every
\* sentence of knowledge has a non-empty cell set and a count that is neither
\* 0 nor the size of its cell set.
C4_Stabilised ==
    pc = "idle" =>
        \A k \in 1 .. Len(knowledge) :
            /\ At(k).cells # {}
            /\ At(k).count # 0
            /\ At(k).count # Cardinality(At(k).cells)

\* A call that made deductions has returned and sentences remain.
C4_Witness ==
    /\ pc = "idle"
    /\ Len(knowledge) > 0
    /\ neighbours \cap safes # {}

\* C5. Subset inference closure: when add_knowledge has returned, for every
\* two sentences A, B of knowledge with A.cells a strict subset of B.cells,
\* knowledge holds a sentence (B.cells - A.cells, B.count - A.count).
C5_SubsetClosure ==
    pc = "idle" =>
        \A a, b \in 1 .. Len(knowledge) :
            (At(a).cells \subseteq At(b).cells /\ At(a).cells # At(b).cells)
                => InKnowledge(heap, knowledge,
                               Sentence(At(b).cells \ At(a).cells,
                                        At(b).count - At(a).count))

\* A call has returned with a strict-subset pair in knowledge.
C5_Witness ==
    /\ pc = "idle"
    /\ \E a, b \in 1 .. Len(knowledge) :
           At(a).cells \subseteq At(b).cells /\ At(a).cells # At(b).cells

\* C6. No duplicates: knowledge never holds two entries equal by value.
C6_NoDuplicates ==
    \A a, b \in 1 .. Len(knowledge) : a # b => At(a) # At(b)

\* C7. Dedup on insertion: every entry a step appends to knowledge (the
\* sentence of an observation, the sentences of an inference pass) differs
\* by value from every entry before it, those appended in the same pass
\* included; so an equal sentence is not appended.
C7_DedupOnInsert ==
    [][\A k \in Len(knowledge) + 1 .. Len(knowledge') :
          \A l \in 1 .. k - 1 : heap'[knowledge'[k]] # heap'[knowledge'[l]]]_vars

\* An inference pass is about to run in which one new sentence is inferred
\* twice, and one in which an inferred sentence is already in knowledge.
C7_Witness ==
    /\ pc = "scan"
    /\ idx > Len(heap)
    /\ LET inf == infered_sentences(heap, knowledge)
       IN  \E k, l \in 1 .. Len(inf) :
               /\ k < l
               /\ inf[k] = inf[l]
               /\ ~InKnowledge(heap, knowledge, inf[k])

\* C8. Direct deduction: when add_knowledge(cell, count) has returned, with
\* count the observed count less the neighbours already known as mines and
\* neighbours the neighbours unresolved at the call: count = 0 puts all of
\* neighbours in the known-safe set, count = |neighbours| puts all of them in
\* the known-mine set. On the board with the single mine (2,2): after
\* observing (0,0), the cells (0,1), (1,0), (1,1) are known safe; after
\* observing (1,1) with (2,2) its only unresolved neighbour, (2,2) is a
\* known mine.
C8_DirectDeduction ==
    (pc = "idle" /\ cell # NoCell) =>
        /\ count = 0 => neighbours \subseteq safes
        /\ count = Cardinality(neighbours) => neighbours \subseteq mines
        /\ (board_mines = {<<2, 2>>} /\ cell = <<0, 0>>)
               => {<<0, 1>>, <<1, 0>>, <<1, 1>>} \subseteq safes
        /\ (board_mines = {<<2, 2>>} /\ cell = <<1, 1>> /\ neighbours = {<<2, 2>>})
               => <<2, 2>> \in mines

\* The scenario: (0,0) then (0,1), (1,0) and last (1,1) observed, mine at (2,2).
C8_Witness ==
    /\ pc = "idle"
    /\ board_mines = {<<2, 2>>}
    /\ moves_made = {<<0, 0>>, <<0, 1>>, <<1, 0>>, <<1, 1>>}
    /\ cell = <<1, 1>>
    /\ neighbours = {<<2, 2>>}
    /\ count = 1
    /\ <<2, 2>> \in mines

\* C9. Trivial deduction of a Sentence: known_safes() returns the cells when
\* count = 0 and the empty set otherwise, known_mines() returns the cells when
\* count = |cells| and the empty set otherwise, and neither changes the
\* Sentence.
C9_TrivialDeduction ==
    [][/\ op' = "known_safes" =>
            /\ sent' = sent
            /\ ret' = IF sent.count = 0 THEN sent.cells ELSE {}
       /\ op' = "known_mines" =>
            /\ sent' = sent
            /\ ret' = IF sent.count = Cardinality(sent.cells) THEN sent.cells ELSE {}]_vars

\* known_mines() has returned a non-empty cell set.
C9_Witness ==
    /\ op = "known_mines"
    /\ ret # {}
    /\ ret = sent.cells

\* C10. Sentence.mark_mine(cell) removes cell and decrements count by 1 when
\* cell is in cells, Sentence.mark_safe(cell) removes cell and keeps count
\* when cell is in cells, both change nothing when cell is not in cells, and
\* the same mark applied again with the same cell changes nothing.
C10_MarkIdempotent ==
    [][/\ (op' = "mark_mine" /\ arg' \in sent.cells) =>
            sent' = [cells |-> sent.cells \ {arg'}, count |-> sent.count - 1]
       /\ (op' = "mark_safe" /\ arg' \in sent.cells) =>
            sent' = [cells |-> sent.cells \ {arg'}, count |-> sent.count]
       /\ (op' \in {"mark_mine", "mark_safe"} /\ arg' \notin sent.cells) =>
            sent' = sent
       /\ (op \in {"mark_mine", "mark_safe"} /\ op' = op /\ arg' = arg) =>
            sent' = sent]_vars

\* mark_mine has removed a cell from a Sentence that keeps other cells.
C10_Witness ==
    /\ op = "mark_mine"
    /\ arg \in SentCells
    /\ sent.cells # {}
    /\ sent.count >= 0

\* C11. make_safe_move returns a cell of the known-safe set that is not in
\* moves_made whenever there is one, returns none exactly when there is none,
\* and changes none of moves_made, the known sets and knowledge. (A step from
\* idle to idle is a make_safe_move call.)
C11_SafeMove ==
    [][(pc = "idle" /\ pc' = "idle") =>
          /\ (\E c \in safes : c \notin moves_made)
                 => (move' \in safes /\ move' \notin moves_made)
          /\ (move' = NoCell) <=> ~(\E c \in safes : c \notin moves_made)
          /\ UNCHANGED <<moves_made, safes, mines, heap, knowledge>>]_vars

\* make_safe_move has returned one of several candidate cells.
C11_Witness ==
    /\ pc = "idle"
    /\ move \in safes
    /\ move \notin moves_made
    /\ Cardinality(safes \ moves_made) >= 2
    /\ Len(knowledge) > 0

\* C12. make_random_move returns none when every cell of the board is in
\* moves_made or in the known-mine set: a call made in such a state comes to
\* its return, with none.
C12_RandomNone ==
    (pc = "random" /\ Cells \subseteq (moves_made \cup mines))
        ~> (pc = "idle" /\ move = NoCell)

\* C13. A cell make_random_move returns is an in-bounds cell that is neither
\* in moves_made nor in the known-mine set, whatever the draws, and no step of
\* the call changes the engine state.
C13_RandomMove ==
    [][/\ (pc = "random" /\ pc' = "idle") =>
            (move' \in Cells /\ move' \notin moves_made /\ move' \notin mines)
       /\ (pc = "random" \/ pc' = "random") =>
            UNCHANGED <<moves_made, safes, mines, heap, knowledge>>]_vars

\* make_random_move has returned a cell while a mine is known and another
\* cell was turned down.
C13_Witness ==
    /\ pc = "idle"
    /\ move \in Cells
    /\ move \notin moves_made
    /\ mines # {}
    /\ moves_made # {}

\* C14. New-sentence construction: in add_knowledge(cell, count) the cell set
\* of the candidate is the in-bounds cells among the 8 around cell that are in
\* neither known set, its count is the observed count less the number of
\* in-bounds neighbours in the known-mine set, and it is appended to knowledge
\* only when its cell set is not empty (and then as the last entry, unless an
\* equal entry is there).
C14_NewSentence ==
    [][(pc = "idle" /\ pc' = "scan") =>
          LET c      == cell'
              around == {d \in Cells : /\ d # c
                                       /\ d[1] - c[1] \in {-1, 0, 1}
                                       /\ d[2] - c[2] \in {-1, 0, 1}}
              cand   == {d \in around : d \notin mines /\ d \notin safes}
              cnt    == nearby_mines(c) - Cardinality({d \in around : d \in mines})
              grown  == Len(knowledge') > Len(knowledge)
          IN  /\ neighbours' = cand
              /\ count' = cnt
              /\ cand = {} => ~grown
              /\ grown => /\ Len(knowledge') = Len(knowledge) + 1
                          /\ heap'[knowledge'[Len(knowledge')]] = Sentence(cand, cnt)
              /\ (cand # {} /\ ~grown) =>
                     InKnowledge(heap', knowledge', Sentence(cand, cnt))]_vars

\* A call has just appended a sentence for a cell with a known mine and a
\* known safe cell among its neighbours.
C14_Witness ==
    /\ pc = "scan"
    /\ idx = 1
    /\ Len(knowledge) > 0
    /\ heap[knowledge[Len(knowledge)]] = Sentence(neighbours, count)
    /\ Neighbours(cell) \cap mines # {}
    /\ Neighbours(cell) \cap safes # {}
    /\ count = nearby_mines(cell) - Cardinality(Neighbours(cell) \cap mines)

\* C15. Resolved cells are purged: after every step of add_knowledge (each
\* engine-level mark_mine / mark_safe, each inference pass, the return) no
\* cell of the known-safe or known-mine set is in the cell set of a sentence
\* of knowledge.
C15_Purged ==
    \A k \in 1 .. Len(knowledge) : At(k).cells \cap (safes \cup mines) = {}

\* A mark step of the current pass is done, more blocks are to come, and
\* knowledge holds another sentence that still has cells.
C15_Witness ==
    /\ pc \in {"mines", "safes"}
    /\ possible_inference
    /\ blocks # {}
    /\ \E k \in 1 .. Len(knowledge) :
           At(k).cells # {} /\ At(k).cells # heap[idx].cells

\* C16. Count bounds: with observations taken from a board, every sentence of
\* knowledge has 0 <= count <= |cells| after every step of add_knowledge
\* (each mark propagation, each inference pass, the return).
C16_CountBounds ==
    \A k \in 1 .. Len(knowledge) :
        0 <= At(k).count /\ At(k).count <= Cardinality(At(k).cells)

\* A pass has marked cells and a sentence with a count strictly inside its
\* bounds remains.
C16_Witness ==
    /\ pc = "scan"
    /\ possible_inference
    /\ \E k \in 1 .. Len(knowledge) :
           0 < At(k).count /\ At(k).count < Cardinality(At(k).cells)

\* C19. Constraint truthfulness: with observations taken from a fixed board,
\* at every point of every add_knowledge call the count of each sentence of
\* knowledge is the number of the board's mines among its cells, for the
\* sentences simplified in place and for those derived by subset inference.
C19_Truthful ==
    \A k \in 1 .. Len(knowledge) :
        At(k).count = Cardinality(At(k).cells \cap board_mines)

\* An inference pass has just appended the difference of two sentences of
\* knowledge, one a proper subset of the other, with a mine left in it.
C19_Witness ==
    /\ pc = "scan"
    /\ idx = 1
    /\ Len(knowledge) >= 3
    /\ At(Len(knowledge)).count > 0
    /\ \E a, b \in 1 .. Len(knowledge) - 1 :
           /\ At(a).cells \subseteq At(b).cells
           /\ At(a).cells # At(b).cells
           /\ At(a).count > 0
           /\ At(Len(knowledge)).cells = At(b).cells \ At(a).cells
           /\ At(Len(knowledge)).count = At(b).count - At(a).count

\* The pass of the closure loop is at its end: the for loop of line 223 has
\* visited every sentence of the copy, lines 242-260 are next.
PassEnd == pc = "scan" /\ idx > Len(heap)

\* The pass that is at its end removed a sentence from knowledge (line 230):
\* heap holds the sentences of the copy taken at line 223.
PassRemoved == Len(knowledge) < Len(heap)

\* C17 as stated. Closure exit condition: the closure loop exits only after a
\* full pass in which no new mine or safe cell was deduced, no sentence was
\* removed from knowledge and no new derived sentence was added; a pass that
\* removes an emptied sentence is always followed by another pass.
C17_ExitCondition ==
    [][PassEnd =>
          /\ (pc' = "idle") =>
                 /\ ~possible_inference
                 /\ ~PassRemoved
                 /\ Len(knowledge') = Len(knowledge)
          /\ PassRemoved => pc' = "scan"]_vars

\* C17, amended. The closure loop exits only after a full pass in which no
\* new mine or safe cell was deduced and no new derived sentence was added:
\* every deduction of a mine or safe cell raises the flag, the flag is lowered
\* only between two passes, and the loop exits only at the end of a pass with
\* the flag down and nothing appended. (A pass that only removes emptied
\* sentences may be the last one.)
C17_ExitAmended ==
    [][/\ (pc # "idle" /\ (mines' # mines \/ safes' # safes)) => possible_inference'
       /\ (possible_inference /\ ~possible_inference') => PassEnd
       /\ (pc = "scan" /\ pc' = "idle") =>
              /\ PassEnd
              /\ ~possible_inference
              /\ Values(heap', knowledge') = Values(heap, knowledge)]_vars

\* The last pass of a call: it removed an emptied sentence, deduced nothing,
\* and the inference of lines 242-260 has nothing new to append.
C17_Witness ==
    /\ PassEnd
    /\ PassRemoved
    /\ ~possible_inference
    /\ mines # {}
    /\ LET inf == infered_sentences(heap, knowledge)
       IN  \A k \in 1 .. Len(inf) : InKnowledge(heap, knowledge, inf[k])

\* C18. Inconsistent observation: when add_knowledge(cell, count) is called
\* with count smaller than the number of the cell's neighbours already in the
\* known-mine set, no error is raised and the observation is ignored: no
\* sentence (which would have a negative count) is stored in knowledge.
C18_Ignored ==
    [][/\ pc' # "raised"
       /\ (pc = "idle" /\ pc' = "scan" /\ count' < 0) =>
              Len(knowledge') = Len(knowledge)]_vars

\* C20. Monotonic knowledge: across any sequence of add_knowledge, mark_mine,
\* mark_safe, make_safe_move and make_random_move calls, moves_made, safes
\* and mines only grow, and every cell of moves_made is in safes.
C20_Monotonic ==
    [][/\ moves_made \subseteq moves_made'
       /\ safes \subseteq safes'
       /\ mines \subseteq mines'
       /\ moves_made' \subseteq safes']_vars

\* A move query has answered after an observation and marks: all three sets
\* have cells, and a sentence is still in knowledge.
C20_Witness ==
    /\ pc = "idle"
    /\ move \in Cells
    /\ moves_made # {}
    /\ mines # {}
    /\ safes \ moves_made # {}
    /\ Len(knowledge) > 0
    /\ board_mines = {}

====
